---- MODULE Spec2Model ----
(***************************************************************************)
(* Model of the Zepto price tracker (zepto_tracker_Arcade_Gloria.py and    *)
(* the older zepto_tracker.py): identity key of a product, the sqlite      *)
(* catalog (table products) and history (table price_history), the upsert  *)
(* save_or_update_product, the run scrape_all_categories, the ranking      *)
(* _analyze_price_changes, the Slack delivery send_slack_alert and the     *)
(* scroll loop _wait_for_products.                                         *)
(*                                                                         *)
(* Text is a sequence of one-character strings.  Prices are integers; the  *)
(* SQL NULL / Python None is the value None.  A percentage is an exact     *)
(* fraction [num, den] in lowest terms (the code computes it in binary     *)
(* floating point; rounding is not modelled).  md5(...)[:16] is an         *)
(* injective tag of its input (digest collisions are not modelled).        *)
(***************************************************************************)
EXTENDS Integers, Sequences, FiniteSets, TLC

(* ------------------------------ bounds -------------------------------- *)

\* prices range over 0 .. MaxPrice
MaxPrice == 2
\* one category page yields at most MaxProducts extracted products
MaxProducts == 2
\* the same, for each of two trackers that run at the same time
ConcProducts == 1
\* an update list handed to the ranking holds at most MaxUpdates records
MaxUpdates == 2

(* ------------------------------ values -------------------------------- *)

\* Python None and SQL NULL (a price column or old_price without a value)
None == -1

\* Python truthiness of a number-or-None: None and 0 are falsy
Truthy(x) == x # None /\ x # 0

Abs(x) == IF x < 0 THEN -x ELSE x

RECURSIVE Gcd(_, _)
Gcd(a, b) == IF b = 0 THEN a ELSE Gcd(b, a % b)

\* the fraction n/d (d > 0) in lowest terms
Rat(n, d) ==
    LET g == Gcd(Abs(n), d)
    IN  [num |-> n \div g, den |-> d \div g]

Zero == Rat(0, 1)

\* x <= y on fractions
RatLeq(x, y) == x.num * y.den <= y.num * x.den

RatAbs(x) == [num |-> Abs(x.num), den |-> x.den]

(* ------------------------------- text --------------------------------- *)

UpperCase == <<"A", "B", "C", "D", "E", "F", "G", "H", "I", "J", "K", "L", "M",
               "N", "O", "P", "Q", "R", "S", "T", "U", "V", "W", "X", "Y", "Z">>

LowerCase == <<"a", "b", "c", "d", "e", "f", "g", "h", "i", "j", "k", "l", "m",
               "n", "o", "p", "q", "r", "s", "t", "u", "v", "w", "x", "y", "z">>

\* str.lower() of one character
LowerChar(c) ==
    IF \E i \in 1..26 : UpperCase[i] = c
    THEN LowerCase[CHOOSE i \in 1..26 : UpperCase[i] = c]
    ELSE c

\* str.lower()
Lower(s) == [i \in 1..Len(s) |-> LowerChar(s[i])]

\* s[i:] starts with lit
StartsAt(s, i, lit) ==
    /\ i + Len(lit) - 1 <= Len(s)
    /\ \A k \in 1..Len(lit) : s[i + k - 1] = lit[k]

\* last index of the longest run of characters outside stop that starts at i
\* (i - 1 when s[i] is in stop or i is past the end)
RunEnd(s, i, stop) ==
    LET ends == {j \in (i - 1)..Len(s) : \A k \in i..j : s[k] \notin stop}
    IN  CHOOSE j \in ends : \A k \in ends : k <= j

(* --------------------- Product.extract_zepto_id ----------------------- *)

\* pattern elements: a literal, or [^stop]+
Lit(c) == [t |-> "lit", c |-> c, stop |-> {}]
Run(stop) == [t |-> "run", c |-> <<>>, stop |-> stop]

\* the ordered URL patterns; the last element of each is the captured group
patterns ==
    << <<Lit(<<"/", "p", "/">>), Run({"/", "?"})>>,
       <<Lit(<<"/", "p", "r", "o", "d", "u", "c", "t", "/">>), Run({"/", "?"})>>,
       <<Lit(<<"/", "c", "n", "/">>), Run({"/"}), Lit(<<"/">>), Run({"/"}),
         Lit(<<"/", "c", "i", "d", "/">>), Run({"/"}),
         Lit(<<"/", "s", "c", "i", "d", "/">>), Run({"/", "?"})>>,
       <<Lit(<<"i", "d", "=">>), Run({"&"})>> >>

NoMatch == [ok |-> FALSE, group |-> <<>>]

\* match elements k.. of pat at position i of s; the group is the text of the
\* last element.  Every run is followed by a literal that starts with a
\* character of its stop set or by the end of the pattern, so the greedy
\* match is the only one.
RECURSIVE MatchAt(_, _, _, _)
MatchAt(pat, k, s, i) ==
    IF pat[k].t = "lit"
    THEN IF StartsAt(s, i, pat[k].c)
         THEN MatchAt(pat, k + 1, s, i + Len(pat[k].c))
         ELSE NoMatch
    ELSE LET j == RunEnd(s, i, pat[k].stop)
         IN  IF j < i THEN NoMatch
             ELSE IF k = Len(pat)
                  THEN [ok |-> TRUE, group |-> SubSeq(s, i, j)]
                  ELSE MatchAt(pat, k + 1, s, j + 1)

\* re.search(pattern, s): the match at the leftmost position that has one
re_search(pat, s) ==
    LET starts == {i \in 1..Len(s) : MatchAt(pat, 1, s, i).ok}
    IN  IF starts = {} THEN NoMatch
        ELSE MatchAt(pat, 1, s, CHOOSE i \in starts : \A k \in starts : i <= k)

\* a lone surrogate code point (U+D800 .. U+DFFF): a character a str can
\* hold and UTF-8 cannot encode
Surrogate == "U+D800"

\* str.encode() returns bytes unless the text holds a lone surrogate, and then
\* raises UnicodeEncodeError; the other characters of the model are ASCII,
\* one byte each, written as the character
Encodable(text) == \A k \in 1..Len(text) : text[k] # Surrogate

\* an identity key: an id taken verbatim from the URL, or a truncated digest
NoId == [kind |-> "none", val |-> <<>>]
UrlId(g) == [kind |-> "id", val |-> g]
Md5(content) == [kind |-> "md5", val |-> content]

\* hexdigest()[:16]: the number of characters of a digest key
DigestLength == 16

\* len() of a key: the text of a URL id, or the sixteen hex digits
key_length(key) == IF key.kind = "id" THEN Len(key.val) ELSE DigestLength

\* the call does not return a key: str.encode() has raised
UnicodeEncodeError == [kind |-> "raise", val |-> <<>>]

\* hashlib.md5(text.encode()).hexdigest()[:16]
md5_of_text(text) == IF Encodable(text) THEN Md5(text) ELSE UnicodeEncodeError

\* a variant that returns the id of the last pattern that matches
extract_zepto_id_last(url) ==
    IF url = <<>> THEN NoId
    ELSE LET hits == {p \in 1..Len(patterns) : re_search(patterns[p], url).ok}
         IN  IF hits # {}
             THEN UrlId(re_search(patterns[CHOOSE p \in hits : \A q \in hits : q <= p],
                                  url).group)
             ELSE md5_of_text(url)

extract_zepto_id(url) ==
    IF url = <<>> THEN NoId
    ELSE LET hits == {p \in 1..Len(patterns) : re_search(patterns[p], url).ok}
         IN  IF hits # {}
             THEN UrlId(re_search(patterns[CHOOSE p \in hits : \A q \in hits : p <= q],
                                  url).group)
             ELSE md5_of_text(url)

(* -------------------------- Product.get_hash -------------------------- *)

\* the characters of the model, in code-point order
Chars == <<" ", "&", "-", ".", "/",
           "0", "1", "2", "3", "4", "5", "6", "7", "8", "9", "=", "?",
           "A", "B", "C", "D", "E", "F", "G", "H", "I", "J", "K", "L", "M",
           "N", "O", "P", "Q", "R", "S", "T", "U", "V", "W", "X", "Y", "Z",
           "a", "b", "c", "d", "e", "f", "g", "h", "i", "j", "k", "l", "m",
           "n", "o", "p", "q", "r", "s", "t", "u", "v", "w", "x", "y", "z", "|">>

Ord(c) == CHOOSE i \in 1..Len(Chars) : Chars[i] = c

Digits == {"0", "1", "2", "3", "4", "5", "6", "7", "8", "9"}

Whitespace == {" "}

\* a < b as Python compares str
StrLess(a, b) ==
    \/ /\ Len(a) < Len(b)
       /\ \A k \in 1..Len(a) : a[k] = b[k]
    \/ \E i \in 1..Len(a) :
        /\ i <= Len(b)
        /\ \A k \in 1..(i - 1) : a[k] = b[k]
        /\ Ord(a[i]) < Ord(b[i])

\* sorted(list of str)
RECURSIVE sorted(_)
sorted(l) ==
    IF l = <<>> THEN <<>>
    ELSE LET i == CHOOSE i \in 1..Len(l) :
                    \A k \in 1..Len(l) :
                        k # i => (StrLess(l[i], l[k]) \/ (l[i] = l[k] /\ i < k))
             rest == [k \in 1..(Len(l) - 1) |-> IF k < i THEN l[k] ELSE l[k + 1]]
         IN  <<l[i]>> \o sorted(rest)

\* sep.join(list of str)
RECURSIVE join(_, _)
join(sep, l) ==
    IF l = <<>> THEN <<>>
    ELSE IF Len(l) = 1 THEN l[1]
    ELSE l[1] \o sep \o join(sep, Tail(l))

\* the units of size_pattern, in the order of the alternation
units == << <<"g">>, <<"k", "g">>, <<"m", "l">>, <<"l">>, <<"p", "c", "s">>,
            <<"p", "c">>, <<"p", "a", "c", "k">>, <<"u", "n", "i", "t", "s">>,
            <<"u", "n", "i", "t">> >>

\* size_pattern matched at position i: \d+(?:\.\d+)?\s*(?:unit); the end of
\* the match, or 0.  Digits, fraction and blanks are followed by a character
\* outside their class, so only the greedy choice can match.
SizeEndAt(s, i) ==
    LET d == RunEnd(s, i, {c \in {s[k] : k \in 1..Len(s)} : c \notin Digits})
        f == IF d + 1 <= Len(s) /\ s[d + 1] = "."
             THEN RunEnd(s, d + 2, {c \in {s[k] : k \in 1..Len(s)} : c \notin Digits})
             ELSE d
        e == IF f > d + 1 THEN f ELSE d
        w == RunEnd(s, e + 1, {c \in {s[k] : k \in 1..Len(s)} : c \notin Whitespace})
        us == {u \in 1..Len(units) : StartsAt(s, w + 1, units[u])}
    IN  IF d < i \/ us = {} THEN 0
        ELSE w + Len(units[CHOOSE u \in us : \A v \in us : u <= v])

\* size_match.group(1) if size_match else ""
size_info(name_lower) ==
    LET starts == {i \in 1..Len(name_lower) : SizeEndAt(name_lower, i) # 0}
    IN  IF starts = {} THEN <<>>
        ELSE LET i == CHOOSE i \in starts : \A k \in starts : i <= k
             IN  SubSeq(name_lower, i, SizeEndAt(name_lower, i))

\* "." in a feature pattern matches any character
AnyChar == "ANY"

MatchesAt(s, i, alt) ==
    /\ i + Len(alt) - 1 <= Len(s)
    /\ \A k \in 1..Len(alt) : alt[k] = AnyChar \/ s[i + k - 1] = alt[k]

\* the feature vocabulary: each entry an ordered alternation
feature_patterns ==
    << << <<"d","a","n","d","r","u","f","f">>,
          <<"a","n","t","i","-","d","a","n","d","r","u","f","f">>,
          <<"d","a","n","d","r","u","f","f","-","c","a","r","e">> >>,
       << <<"h","a","i","r",AnyChar,"f","a","l","l">>,
          <<"h","a","i","r","-","f","a","l","l">>,
          <<"h","a","i","r","f","a","l","l">> >>,
       << <<"d","a","m","a","g","e",AnyChar,"c","a","r","e">>,
          <<"d","a","m","a","g","e","-","r","e","p","a","i","r">> >>,
       << <<"s","m","o","o","t","h">>, <<"s","i","l","k">>, <<"s","h","i","n","e">>,
          <<"s","m","o","o","t","h","e","n","i","n","g">> >>,
       << <<"v","o","l","u","m","e">>, <<"v","o","l","u","m","i","z","i","n","g">>,
          <<"t","h","i","c","k">> >>,
       << <<"c","o","l","o","r">>, <<"c","o","l","o","r","e","d">>,
          <<"c","o","l","o","u","r">> >>,
       << <<"m","e","n">>, <<"m","a","l","e">>,
          <<"g","e","n","t","l","e","m","a","n">> >>,
       << <<"k","i","d","s">>, <<"c","h","i","l","d","r","e","n">>,
          <<"b","a","b","y">> >>,
       << <<"h","e","r","b","a","l">>, <<"n","a","t","u","r","a","l">>,
          <<"o","r","g","a","n","i","c">> >>,
       << <<"o","i","l","y">>, <<"d","r","y">>, <<"n","o","r","m","a","l">> >>,
       << <<"d","a","i","l","y">>, <<"r","e","g","u","l","a","r">>,
          <<"c","l","a","s","s","i","c">> >>,
       << <<"i","n","t","e","n","s","i","v","e">>, <<"s","t","r","o","n","g">>,
          <<"e","x","t","r","a">> >>,
       << <<"c","l","i","n","i","c","a","l">>,
          <<"m","e","d","i","c","a","t","e","d">> >> >>

\* re.search of one alternation: the leftmost position that matches, and
\* there the first alternative that does
feature_match(alts, s) ==
    LET hit(i) == {a \in 1..Len(alts) : MatchesAt(s, i, alts[a])}
        starts == {i \in 1..Len(s) : hit(i) # {}}
    IN  IF starts = {} THEN NoMatch
        ELSE LET i == CHOOSE i \in starts : \A k \in starts : i <= k
                 a == CHOOSE a \in hit(i) : \A b \in hit(i) : a <= b
             IN  [ok |-> TRUE, group |-> SubSeq(s, i, i + Len(alts[a]) - 1)]

\* the loop over feature_patterns: the matched texts, in pattern order
RECURSIVE features(_, _)
features(name_lower, p) ==
    IF p > Len(feature_patterns) THEN <<>>
    ELSE LET m == feature_match(feature_patterns[p], name_lower)
         IN  (IF m.ok THEN <<m.group>> ELSE <<>>) \o features(name_lower, p + 1)

feature_info(name_lower) == join(<<"|">>, sorted(features(name_lower, 1)))

\* the identity key of a product (an exception of extract_zepto_id leaves
\* get_hash as it is)
get_hash(product) ==
    LET product_id == extract_zepto_id(product.url)
        name_lower == Lower(product.name)
        content == name_lower \o <<"|">> \o Lower(product.category) \o <<"|">>
                   \o size_info(name_lower) \o <<"|">> \o feature_info(name_lower)
    IN  IF product_id # NoId THEN product_id ELSE md5_of_text(content)


(* --------------------------- the database ----------------------------- *)

VARIABLES
    products,        \* table products, committed: identity key -> row
    price_history,   \* table price_history, committed: rows in id order
    db_lock,         \* the tracker whose write transaction is open, or 0
    tracker,         \* per tracker process: its fields and the locals of its run
    prior_at_write,  \* per tracker: what the catalog held at each of its commits
    write_failed,    \* per tracker: a write of its run could not be committed
    upserts_after_failure,  \* per tracker: upserts begun after such a failure
    rank,            \* _analyze_price_changes on its own: arguments and result
    resolve,         \* get_hash on its own: the records, their keys, the calls made
    poll             \* _wait_for_products on its own: its locals and the polls made

vars == <<products, price_history, db_lock, tracker, prior_at_write, write_failed,
          upserts_after_failure, rank, resolve, poll>>

\* cursor.fetchone() found nothing: get_product_by_hash returns None
NoRow == [product_hash |-> NoId, product_id |-> NoId, name |-> <<>>, price |-> None,
          category |-> <<>>, url |-> <<>>, location |-> ""]

\* the parameters of INSERT INTO products
product_row(product, product_hash, product_id, location_pin) ==
    [product_hash |-> product_hash, product_id |-> product_id,
     name |-> product.name, price |-> product.price, category |-> product.category,
     url |-> product.url, location |-> location_pin]

\* the parameters of INSERT INTO price_history
history_row(product, product_hash, location_pin) ==
    [product_hash |-> product_hash, name |-> product.name, price |-> product.price,
     category |-> product.category, location |-> location_pin]

\* a variant that replaces the whole table (DELETE, then INSERT)
upsert_row_replace_table(table, row) == [k \in {row.product_hash} |-> row]

\* a variant that keeps the row already there (ON CONFLICT DO NOTHING)
upsert_row_keep_first(table, row) ==
    [k \in DOMAIN table \cup {row.product_hash} |->
        IF k \in DOMAIN table THEN table[k] ELSE row]

\* INSERT INTO products ... ON CONFLICT(product_hash) DO UPDATE SET every column
upsert_row(table, row) ==
    [k \in DOMAIN table \cup {row.product_hash} |->
        IF k = row.product_hash THEN row ELSE table[k]]

\* SELECT * FROM products WHERE product_hash = ?
get_product_by_hash(table, product_hash) ==
    IF product_hash \in DOMAIN table THEN table[product_hash] ELSE NoRow

\* SELECT product_hash, price FROM products
_get_price_snapshot(table) == [k \in DOMAIN table |-> table[k].price]

(* ---------------- save_or_update_product: the result ------------------ *)

\* price_diff and pct_change are set only under this condition
has_previous_price(existing) == Truthy(existing.price) /\ existing.price > 0

\* a variant that leaves out the factor 100
pct_of_fraction(price_diff, old_price) == Rat(price_diff, old_price)

\* (price_diff / existing['price']) * 100.0
pct_of(price_diff, old_price) == Rat(price_diff * 100, old_price)

\* a variant that calls every record new
is_new_of_always(existing) == TRUE

\* a variant that also calls new an entry without a usable price
is_new_of_no_price(existing) == existing = NoRow \/ ~has_previous_price(existing)

\* 'is_new': existing is None
is_new_of(existing) == existing = NoRow

\* a variant whose default is 0
old_price_of_zero(existing) == IF existing # NoRow THEN existing.price ELSE 0

\* 'old_price': None, then existing['price'] if existing
old_price_of(existing) == IF existing # NoRow THEN existing.price ELSE None

\* 'price_diff': 0, then product.price - existing['price'] under both ifs
price_diff_of(product, existing) ==
    IF existing # NoRow /\ has_previous_price(existing)
    THEN product.price - existing.price
    ELSE 0

\* 'pct_change': 0, then the percentage under both ifs
pct_change_of(product, existing) ==
    IF existing # NoRow /\ has_previous_price(existing)
    THEN pct_of(product.price - existing.price, existing.price)
    ELSE Zero

\* the dict returned by save_or_update_product
change_record(product, product_hash, existing) ==
    [hash |-> product_hash,
     name |-> product.name,
     price |-> product.price,
     old_price |-> old_price_of(existing),
     price_diff |-> price_diff_of(product, existing),
     pct_change |-> pct_change_of(product, existing),
     url |-> product.url,
     is_new |-> is_new_of(existing)]

(* ---------------------- _analyze_price_changes ------------------------ *)

\* a variant that keeps every fall of the price, whatever the threshold
is_major_drop_any_fall(update, price_drop_threshold) ==
    /\ ~update.is_new /\ Truthy(update.old_price) /\ Truthy(update.price)
    /\ update.pct_change.num < 0

\* the condition under which an update is appended to major_drops
is_major_drop(update, price_drop_threshold) ==
    /\ ~update.is_new /\ Truthy(update.old_price) /\ Truthy(update.price)
    /\ RatLeq(update.pct_change, Rat(-price_drop_threshold, 1))

\* the updates kept, in the order of the list
RECURSIVE drops_of(_, _)
drops_of(updates, price_drop_threshold) ==
    IF updates = <<>> THEN <<>>
    ELSE (IF is_major_drop(Head(updates), price_drop_threshold)
          THEN <<Head(updates)>> ELSE <<>>)
         \o drops_of(Tail(updates), price_drop_threshold)

\* a variant that leaves the list in the order of the updates
sort_by_drop_unsorted(l) == l

\* list.sort(key=lambda x: abs(x['pct_change']), reverse=True): stable, so
\* records with equal keys keep their order
RECURSIVE sort_by_drop(_)
sort_by_drop(l) ==
    IF l = <<>> THEN <<>>
    ELSE LET key(k) == RatAbs(l[k].pct_change)
             i == CHOOSE i \in 1..Len(l) :
                    \A k \in 1..Len(l) :
                        k # i => \/ ~RatLeq(key(i), key(k))
                                 \/ (key(i) = key(k) /\ i < k)
             rest == [k \in 1..(Len(l) - 1) |-> IF k < i THEN l[k] ELSE l[k + 1]]
         IN  <<l[i]>> \o sort_by_drop(rest)

_analyze_price_changes(updates, price_drop_threshold) ==
    sort_by_drop(drops_of(updates, price_drop_threshold))

(* ------------------------- _remove_duplicates ------------------------- *)

\* str.split(): the maximal runs of non-blank characters
RECURSIVE split(_)
split(s) ==
    IF s = <<>> THEN <<>>
    ELSE IF s[1] \in Whitespace THEN split(Tail(s))
    ELSE LET j == RunEnd(s, 1, Whitespace)
         IN  <<SubSeq(s, 1, j)>> \o split(SubSeq(s, j + 1, Len(s)))

\* ' '.join(prod.name.split()).lower()
normalized_name(name) == Lower(join(<<" ">>, split(name)))

RECURSIVE unique_from(_, _)
unique_from(prods, seen) ==
    IF prods = <<>> THEN <<>>
    ELSE LET n == normalized_name(Head(prods).name)
         IN  IF n \notin seen
             THEN <<Head(prods)>> \o unique_from(Tail(prods), seen \cup {n})
             ELSE unique_from(Tail(prods), seen)

_remove_duplicates(prods) == unique_from(prods, {})


(* ------------------------------ inputs -------------------------------- *)

\* price_drop_threshold: float = 20.0
DefaultThreshold == 20

\* what _extract_products can find on a page: a name and a link
PoolA == [name |-> <<"A", "b">>, url |-> <<>>]
PoolC == [name |-> <<"C", "d">>, url |-> <<"/", "p", "/", "x">>]

Pool == {PoolA, PoolC}

\* the category lists a run can load: the two categories of the older
\* tracker ('Fruits & Vegetables', 'Bath n body-Deals'), and shorter lists
CategoryLists == {<<>>, << <<"F">> >>, << <<"F">>, <<"B">> >>}

SeqsUpTo(S, n) == UNION {[1..m -> S] : m \in 0..n}

\* Product(name, price, mrp=price, discount=0, category, url, image, rating=0);
\* _extract_products keeps a container only when its price is > 0
ExtractedAt(pool, prices, category) ==
    {[name |-> c.name, price |-> q, category |-> category, url |-> c.url] :
        c \in pool, q \in {x \in prices : x > 0}}

Extracted(pool, category) == ExtractedAt(pool, 1..MaxPrice, category)

\* categories.json: absent, not JSON, or a list of categories
CategoryFiles ==
    {[status |-> st, content |-> <<>>] : st \in {"missing", "invalid_json"}}
    \cup {[status |-> "ok", content |-> c] : c \in CategoryLists}

\* categories.json holding JSON of another shape: a number ("scalar"), or a
\* list of objects that all lack the key 'name' or all lack the key 'url'
ConfigFiles ==
    CategoryFiles
    \cup {[status |-> "scalar", content |-> <<>>]}
    \cup {[status |-> st, content |-> c] :
            st \in {"without_name", "without_url"}, c \in CategoryLists \ {<<>>}}

NoProduct == [name |-> <<>>, price |-> None, category |-> <<>>, url |-> <<>>]

NoResult == [hash |-> NoId, name |-> <<>>, price |-> None, old_price |-> None,
             price_diff |-> 0, pct_change |-> Zero, url |-> <<>>, is_new |-> FALSE]

\* ZeptoPriceTrackerWithComparison(location_pin, price_drop_threshold), about
\* to call scrape_all_categories, in an environment without SLACK_WEBHOOK_URL
\* (os.getenv returns None, here the empty text); alert is what became of the
\* Slack message of the run
new_tracker(location_pin, price_drop_threshold, file) ==
    [pc |-> "start",
     location_pin |-> location_pin,
     price_drop_threshold |-> Abs(price_drop_threshold),
     slack_webhook_url |-> "",
     alert |-> "none",
     categories_file |-> file,
     categories |-> <<>>,
     i |-> 0,
     unique_products |-> <<>>,
     j |-> 0,
     product |-> NoProduct,
     existing |-> NoRow,
     result |-> NoResult,
     txn_products |-> <<>>,
     txn_history |-> <<>>,
     prev_snapshot |-> <<>>,
     all_products |-> <<>>,
     product_updates |-> <<>>,
     new_products_count |-> 0,
     major_drops |-> <<>>]

\* the database file left by earlier use: empty, or holding what one earlier
\* upsert of a product wrote
SeedProduct(price) ==
    [name |-> PoolC.name, price |-> price, category |-> <<"F">>, url |-> PoolC.url]

EmptyDb == [products |-> <<>>, price_history |-> <<>>]

SeededDb(price) ==
    LET product == SeedProduct(price)
        product_hash == get_hash(product)
    IN  [products |-> upsert_row(<<>>, product_row(product, product_hash,
                                           extract_zepto_id(product.url), "old")),
         price_history |-> <<history_row(product, product_hash, "old")>>]

RankIdle == [pc |-> "idle", updates |-> <<>>, price_drop_threshold |-> 0,
             major_drops |-> <<>>]

ResolveIdle == [pc |-> "idle"]

PollIdle == [pc |-> "idle"]

Trackers == DOMAIN tracker

(* ---------------------- scrape_all_categories ------------------------- *)

\* open('categories.json') or json.load raises: the run returns []
load_fails(r) ==
    /\ tracker[r].pc = "start"
    /\ tracker[r].categories_file.status # "ok"
    /\ tracker' = [tracker EXCEPT ![r].pc = "done"]
    /\ UNCHANGED <<products, price_history, db_lock, prior_at_write, write_failed,
                   upserts_after_failure, rank, resolve, poll>>

\* json.load returned a number: the snapshot is read, then len(categories)
\* raises TypeError, outside every try, and the exception leaves the run
len_raises(r) ==
    /\ tracker[r].pc = "start"
    /\ tracker[r].categories_file.status = "scalar"
    /\ tracker' = [tracker EXCEPT
            ![r].pc = "raised",
            ![r].prev_snapshot = _get_price_snapshot(products)]
    /\ UNCHANGED <<products, price_history, db_lock, prior_at_write, write_failed,
                   upserts_after_failure, rank, resolve, poll>>

\* print(f"[{i}/{len(categories)}] {category['name']}") stands before the try
\* of the category loop: KeyError leaves the run
name_raises(r) ==
    /\ tracker[r].pc = "category"
    /\ tracker[r].i <= Len(tracker[r].categories)
    /\ tracker[r].categories_file.status = "without_name"
    /\ tracker' = [tracker EXCEPT ![r].pc = "raised"]
    /\ UNCHANGED <<products, price_history, db_lock, prior_at_write, write_failed,
                   upserts_after_failure, rank, resolve, poll>>

\* a variant that does not read the snapshot before the loop
begin_without_snapshot(r) ==
    /\ tracker[r].pc = "start"
    /\ tracker[r].categories_file.status \in {"ok", "without_name", "without_url"}
    /\ tracker' = [tracker EXCEPT
            ![r].pc = "category",
            ![r].categories = tracker[r].categories_file.content,
            ![r].i = 1]
    /\ UNCHANGED <<products, price_history, db_lock, prior_at_write, write_failed,
                   upserts_after_failure, rank, resolve, poll>>

\* categories loaded (a list); prev_snapshot = self._get_price_snapshot()
begin(r) ==
    /\ tracker[r].pc = "start"
    /\ tracker[r].categories_file.status \in {"ok", "without_name", "without_url"}
    /\ tracker' = [tracker EXCEPT
            ![r].pc = "category",
            ![r].categories = tracker[r].categories_file.content,
            ![r].i = 1,
            ![r].prev_snapshot = _get_price_snapshot(products)]
    /\ UNCHANGED <<products, price_history, db_lock, prior_at_write, write_failed,
                   upserts_after_failure, rank, resolve, poll>>

\* a variant without the except clause: the exception ends the run
category_fails_aborts(r) ==
    /\ tracker[r].pc = "category"
    /\ tracker[r].i <= Len(tracker[r].categories)
    /\ tracker' = [tracker EXCEPT ![r].pc = "done"]
    /\ UNCHANGED <<products, price_history, db_lock, prior_at_write, write_failed,
                   upserts_after_failure, rank, resolve, poll>>

\* the page of category i cannot be fetched or extracted (category['url']
\* raises KeyError, goto or a selector fails): except Exception
category_fails(r) ==
    /\ tracker[r].pc = "category"
    /\ tracker[r].i <= Len(tracker[r].categories)
    /\ tracker[r].categories_file.status # "without_name"
    /\ tracker' = [tracker EXCEPT ![r].i = @ + 1]
    /\ UNCHANGED <<products, price_history, db_lock, prior_at_write, write_failed,
                   upserts_after_failure, rank, resolve, poll>>

\* products = _extract_products(...); unique_products = _remove_duplicates(products)
extract_at(r, pool, prices, n) ==
    /\ tracker[r].pc = "category"
    /\ tracker[r].i <= Len(tracker[r].categories)
    /\ tracker[r].categories_file.status = "ok"
    /\ \E prods \in SeqsUpTo(ExtractedAt(pool, prices,
                                         tracker[r].categories[tracker[r].i]), n) :
        LET unique_products == _remove_duplicates(prods)
        IN  tracker' = IF unique_products = <<>>
                       THEN [tracker EXCEPT ![r].i = @ + 1]
                       ELSE [tracker EXCEPT ![r].pc = "read",
                                            ![r].unique_products = unique_products,
                                            ![r].j = 1]
    /\ UNCHANGED <<products, price_history, db_lock, prior_at_write, write_failed,
                   upserts_after_failure, rank, resolve, poll>>

\* the same, on pages whose prices are 1 .. MaxPrice
extract(r, pool, n) == extract_at(r, pool, 1..MaxPrice, n)

\* save_or_update_product up to the upsert: get_hash, get_product_by_hash
\* (a connection of its own), the result dict
read(r) ==
    /\ tracker[r].pc = "read"
    /\ LET product == tracker[r].unique_products[tracker[r].j]
           product_hash == get_hash(product)
           existing == get_product_by_hash(products, product_hash)
       IN  tracker' = [tracker EXCEPT
                ![r].pc = "insert_products",
                ![r].product = product,
                ![r].existing = existing,
                ![r].result = change_record(product, product_hash, existing)]
    /\ upserts_after_failure' =
         [upserts_after_failure EXCEPT ![r] = IF write_failed[r] THEN @ + 1 ELSE @]
    /\ UNCHANGED <<products, price_history, db_lock, prior_at_write, write_failed, rank, resolve,
                   poll>>

\* a variant on a connection in autocommit mode: the row is visible at once
insert_products_autocommit(r) ==
    /\ tracker[r].pc = "insert_products"
    /\ db_lock = 0
    /\ db_lock' = r
    /\ products' = upsert_row(products,
                        product_row(tracker[r].product, tracker[r].result.hash,
                                    extract_zepto_id(tracker[r].product.url),
                                    tracker[r].location_pin))
    /\ tracker' = [tracker EXCEPT ![r].pc = "insert_history"]
    /\ UNCHANGED <<price_history, prior_at_write, write_failed,
                   upserts_after_failure, rank, resolve, poll>>

\* cursor.execute(INSERT INTO products ...): opens the write transaction
insert_products(r) ==
    /\ tracker[r].pc = "insert_products"
    /\ db_lock = 0
    /\ db_lock' = r
    /\ tracker' = [tracker EXCEPT
            ![r].pc = "insert_history",
            ![r].txn_products =
                <<product_row(tracker[r].product, tracker[r].result.hash,
                              extract_zepto_id(tracker[r].product.url),
                              tracker[r].location_pin)>>]
    /\ UNCHANGED <<products, price_history, prior_at_write, write_failed,
                   upserts_after_failure, rank, resolve, poll>>

\* a variant that executes the INSERT INTO price_history twice
insert_history_twice(r) ==
    /\ tracker[r].pc = "insert_history"
    /\ tracker' = [tracker EXCEPT
            ![r].pc = "commit",
            ![r].txn_history =
                <<history_row(tracker[r].product, tracker[r].result.hash,
                              tracker[r].location_pin),
                  history_row(tracker[r].product, tracker[r].result.hash,
                              tracker[r].location_pin)>>]
    /\ UNCHANGED <<products, price_history, db_lock, prior_at_write, write_failed,
                   upserts_after_failure, rank, resolve, poll>>

\* cursor.execute(INSERT INTO price_history ...), in the same transaction
insert_history(r) ==
    /\ tracker[r].pc = "insert_history"
    /\ tracker' = [tracker EXCEPT
            ![r].pc = "commit",
            ![r].txn_history =
                <<history_row(tracker[r].product, tracker[r].result.hash,
                              tracker[r].location_pin)>>]
    /\ UNCHANGED <<products, price_history, db_lock, prior_at_write, write_failed,
                   upserts_after_failure, rank, resolve, poll>>

\* the rows of a transaction applied to the table
RECURSIVE apply_rows(_, _)
apply_rows(table, rows) ==
    IF rows = <<>> THEN table
    ELSE apply_rows(upsert_row(table, Head(rows)), Tail(rows))

\* the tracker's fields once save_or_update_product has returned result
after_upsert(t) ==
    LET last == t.j = Len(t.unique_products)
    IN  [t EXCEPT
            !.pc = IF last THEN "category" ELSE "read",
            !.j = IF last THEN 0 ELSE t.j + 1,
            !.i = IF last THEN t.i + 1 ELSE t.i,
            !.all_products = IF last THEN t.all_products \o t.unique_products
                             ELSE t.all_products,
            !.unique_products = IF last THEN <<>> ELSE t.unique_products,
            !.product_updates = Append(t.product_updates, t.result),
            !.new_products_count = IF t.result.is_new THEN @ + 1 ELSE @,
            !.product = NoProduct,
            !.existing = NoRow,
            !.result = NoResult,
            !.txn_products = <<>>,
            !.txn_history = <<>>]

\* conn.commit(): both inserts become visible; the result is returned and the
\* loop over unique_products goes on
commit(r) ==
    /\ tracker[r].pc = "commit"
    /\ products' = apply_rows(products, tracker[r].txn_products)
    /\ price_history' = price_history \o tracker[r].txn_history
    /\ db_lock' = 0
    /\ prior_at_write' = [prior_at_write EXCEPT
            ![r] = Append(@, get_product_by_hash(products, tracker[r].result.hash))]
    /\ tracker' = [tracker EXCEPT ![r] = after_upsert(tracker[r])]
    /\ UNCHANGED <<write_failed, upserts_after_failure, rank, resolve, poll>>

\* the tracker's fields once an exception of save_or_update_product has been
\* caught by the except clause of the category loop
after_exception(t) ==
    [t EXCEPT
        !.pc = "category",
        !.i = t.i + 1,
        !.j = 0,
        !.unique_products = <<>>,
        !.product = NoProduct,
        !.existing = NoRow,
        !.result = NoResult,
        !.txn_products = <<>>,
        !.txn_history = <<>>]

\* an INSERT or the commit raises (database locked, disk full, I/O error):
\* the connection's context manager rolls the transaction back and the
\* exception leaves save_or_update_product
write_fails(r) ==
    /\ tracker[r].pc \in {"insert_products", "insert_history", "commit"}
    /\ db_lock' = IF db_lock = r THEN 0 ELSE db_lock
    /\ write_failed' = [write_failed EXCEPT ![r] = TRUE]
    /\ tracker' = [tracker EXCEPT ![r] = after_exception(tracker[r])]
    /\ UNCHANGED <<products, price_history, prior_at_write, upserts_after_failure, rank, resolve,
                   poll>>

\* after the loop: major_drops = self._analyze_price_changes(...), then the
\* summary ("Scraping Complete!")
summary(r) ==
    /\ tracker[r].pc = "category"
    /\ tracker[r].i > Len(tracker[r].categories)
    /\ tracker' = [tracker EXCEPT
            ![r].pc = "report",
            ![r].major_drops = _analyze_price_changes(tracker[r].product_updates,
                                                      tracker[r].price_drop_threshold)]
    /\ UNCHANGED <<products, price_history, db_lock, prior_at_write, write_failed,
                   upserts_after_failure, rank, resolve, poll>>

\* What send_slack_alert can come to: nothing is posted without drops or
\* without a webhook; otherwise requests.post answers 200, answers another
\* status, or raises (no connection, timeout, invalid URL)
Deliveries(drops, slack_webhook_url) ==
    IF drops = <<>> \/ slack_webhook_url = ""
    THEN {"not_sent"}
    ELSE {"200", "500", "exception"}

\* a variant whose requests.post stands outside the try: its exception leaves
\* the run
_report_price_drops_unguarded(r) ==
    /\ tracker[r].pc = "report"
    /\ \E delivery \in Deliveries(tracker[r].major_drops, tracker[r].slack_webhook_url) :
        tracker' = [tracker EXCEPT
            ![r].pc = IF delivery = "exception" THEN "raised" ELSE "done",
            ![r].alert = delivery]
    /\ UNCHANGED <<products, price_history, db_lock, prior_at_write, write_failed,
                   upserts_after_failure, rank, resolve, poll>>

\* self._report_price_drops(major_drops), which ends with send_slack_alert:
\* a status other than 200 is printed, an exception is caught and printed;
\* return all_products
_report_price_drops(r) ==
    /\ tracker[r].pc = "report"
    /\ \E delivery \in Deliveries(tracker[r].major_drops, tracker[r].slack_webhook_url) :
        tracker' = [tracker EXCEPT ![r].pc = "done", ![r].alert = delivery]
    /\ UNCHANGED <<products, price_history, db_lock, prior_at_write, write_failed,
                   upserts_after_failure, rank, resolve, poll>>

(* --------------------------- specifications --------------------------- *)

\* one tracker process, as main() builds it, on a database left by earlier use
Init ==
    /\ \E db \in {EmptyDb} \cup {SeededDb(q) : q \in {None} \cup 0..MaxPrice} :
        /\ products = db.products
        /\ price_history = db.price_history
    /\ db_lock = 0
    /\ \E file \in CategoryFiles :
        tracker = [r \in {1} |-> new_tracker("Arcade Gloria", DefaultThreshold, file)]
    /\ prior_at_write = [r \in {1} |-> <<>>]
    /\ poll = PollIdle
    /\ write_failed = [r \in {1} |-> FALSE]
    /\ upserts_after_failure = [r \in {1} |-> 0]
    /\ rank = RankIdle
    /\ resolve = ResolveIdle

Next ==
    \/ \E r \in Trackers : load_fails(r)
    \/ \E r \in Trackers : begin(r)
    \/ \E r \in Trackers : category_fails(r)
    \/ \E r \in Trackers : extract(r, Pool, MaxProducts)
    \/ \E r \in Trackers : read(r)
    \/ \E r \in Trackers : insert_products(r)
    \/ \E r \in Trackers : insert_history(r)
    \/ \E r \in Trackers : commit(r)
    \/ \E r \in Trackers : write_fails(r)
    \/ \E r \in Trackers : summary(r)
    \/ \E r \in Trackers : _report_price_drops(r)

Spec == Init /\ [][Next]_vars


\* the same run on pages that list at most one product, without a link
NextLive ==
    \/ \E r \in Trackers : load_fails(r)
    \/ \E r \in Trackers : begin(r)
    \/ \E r \in Trackers : category_fails(r)
    \/ \E r \in Trackers : extract(r, {PoolA}, 1)
    \/ \E r \in Trackers : read(r)
    \/ \E r \in Trackers : insert_products(r)
    \/ \E r \in Trackers : insert_history(r)
    \/ \E r \in Trackers : commit(r)
    \/ \E r \in Trackers : write_fails(r)
    \/ \E r \in Trackers : summary(r)
    \/ \E r \in Trackers : _report_price_drops(r)

\* the run is one sequential coroutine whose every await returns or raises
\* (navigation and selector waits time out, the scroll loops are bounded): a
\* step that is possible is eventually taken
SpecLive == Init /\ [][NextLive]_vars /\ WF_vars(NextLive)

\* one tracker on a categories.json of any content, the pages as in NextLive
InitConfig ==
    /\ \E db \in {EmptyDb} \cup {SeededDb(q) : q \in {None} \cup 0..MaxPrice} :
        /\ products = db.products
        /\ price_history = db.price_history
    /\ db_lock = 0
    /\ \E file \in ConfigFiles :
        tracker = [r \in {1} |-> new_tracker("Arcade Gloria", DefaultThreshold, file)]
    /\ prior_at_write = [r \in {1} |-> <<>>]
    /\ poll = PollIdle
    /\ write_failed = [r \in {1} |-> FALSE]
    /\ upserts_after_failure = [r \in {1} |-> 0]
    /\ rank = RankIdle
    /\ resolve = ResolveIdle

NextConfig ==
    \/ \E r \in Trackers : load_fails(r)
    \/ \E r \in Trackers : len_raises(r)
    \/ \E r \in Trackers : begin(r)
    \/ \E r \in Trackers : name_raises(r)
    \/ \E r \in Trackers : category_fails(r)
    \/ \E r \in Trackers : extract(r, {PoolA}, 1)
    \/ \E r \in Trackers : read(r)
    \/ \E r \in Trackers : insert_products(r)
    \/ \E r \in Trackers : insert_history(r)
    \/ \E r \in Trackers : commit(r)
    \/ \E r \in Trackers : write_fails(r)
    \/ \E r \in Trackers : summary(r)
    \/ \E r \in Trackers : _report_price_drops(r)

SpecConfig == InitConfig /\ [][NextConfig]_vars

\* two tracker processes on the same database file, started at the same
\* time, each with a readable category list
InitConc ==
    /\ \E db \in {EmptyDb, SeededDb(MaxPrice)} :
        /\ products = db.products
        /\ price_history = db.price_history
    /\ db_lock = 0
    /\ \E c1 \in CategoryLists, c2 \in CategoryLists :
        tracker = [r \in {1, 2} |->
            new_tracker(IF r = 1 THEN "Arcade Gloria" ELSE "560001", DefaultThreshold,
                        [status |-> "ok", content |-> IF r = 1 THEN c1 ELSE c2])]
    /\ prior_at_write = [r \in {1, 2} |-> <<>>]
    /\ poll = PollIdle
    /\ write_failed = [r \in {1, 2} |-> FALSE]
    /\ upserts_after_failure = [r \in {1, 2} |-> 0]
    /\ rank = RankIdle
    /\ resolve = ResolveIdle

NextConc ==
    \/ \E r \in Trackers : begin(r)
    \/ \E r \in Trackers : category_fails(r)
    \/ \E r \in Trackers : extract(r, {PoolC}, ConcProducts)
    \/ \E r \in Trackers : read(r)
    \/ \E r \in Trackers : insert_products(r)
    \/ \E r \in Trackers : insert_history(r)
    \/ \E r \in Trackers : commit(r)
    \/ \E r \in Trackers : write_fails(r)
    \/ \E r \in Trackers : summary(r)
    \/ \E r \in Trackers : _report_price_drops(r)

SpecConc == InitConc /\ [][NextConc]_vars

\* one tracker, with or without SLACK_WEBHOOK_URL in its environment, on
\* pages that list at most one product
InitAlert ==
    /\ \E db \in {EmptyDb} \cup {SeededDb(q) : q \in 1..MaxPrice} :
        /\ products = db.products
        /\ price_history = db.price_history
    /\ db_lock = 0
    /\ \E c \in CategoryLists, slack_webhook_url \in {"", "https://hooks.slack.com/x"} :
        tracker = [r \in {1} |->
            [new_tracker("Arcade Gloria", DefaultThreshold, [status |-> "ok", content |-> c])
                EXCEPT !.slack_webhook_url = slack_webhook_url]]
    /\ prior_at_write = [r \in {1} |-> <<>>]
    /\ poll = PollIdle
    /\ write_failed = [r \in {1} |-> FALSE]
    /\ upserts_after_failure = [r \in {1} |-> 0]
    /\ rank = RankIdle
    /\ resolve = ResolveIdle

SpecAlert == InitAlert /\ [][NextConc]_vars

(* ------------------------- successive runs ---------------------------- *)

\* one tracker run again and again on the same database file
MaxRuns == 3

\* the prices one product is listed at from run to run
RunPrices == {140, 150, 200}

\* main() once more, after the run before has returned: a new process and a
\* new tracker object; the database file stays
rerun(r) ==
    /\ tracker[r].pc = "done"
    /\ Len(price_history) < MaxRuns
    /\ tracker' = [tracker EXCEPT
            ![r] = new_tracker(tracker[r].location_pin, tracker[r].price_drop_threshold,
                               tracker[r].categories_file)]
    /\ prior_at_write' = [prior_at_write EXCEPT ![r] = <<>>]
    /\ write_failed' = [write_failed EXCEPT ![r] = FALSE]
    /\ upserts_after_failure' = [upserts_after_failure EXCEPT ![r] = 0]
    /\ UNCHANGED <<products, price_history, db_lock, rank, resolve, poll>>

InitRuns ==
    /\ products = EmptyDb.products
    /\ price_history = EmptyDb.price_history
    /\ db_lock = 0
    /\ tracker = [r \in {1} |->
            new_tracker("Arcade Gloria", DefaultThreshold,
                        [status |-> "ok", content |-> << <<"F">> >>])]
    /\ prior_at_write = [r \in {1} |-> <<>>]
    /\ poll = PollIdle
    /\ write_failed = [r \in {1} |-> FALSE]
    /\ upserts_after_failure = [r \in {1} |-> 0]
    /\ rank = RankIdle
    /\ resolve = ResolveIdle

NextRuns ==
    \/ \E r \in Trackers : begin(r)
    \/ \E r \in Trackers : category_fails(r)
    \/ \E r \in Trackers : extract_at(r, {PoolC}, RunPrices, 1)
    \/ \E r \in Trackers : read(r)
    \/ \E r \in Trackers : insert_products(r)
    \/ \E r \in Trackers : insert_history(r)
    \/ \E r \in Trackers : commit(r)
    \/ \E r \in Trackers : write_fails(r)
    \/ \E r \in Trackers : summary(r)
    \/ \E r \in Trackers : _report_price_drops(r)
    \/ \E r \in Trackers : rerun(r)

SpecRuns == InitRuns /\ [][NextRuns]_vars

(* ------------------- _analyze_price_changes alone --------------------- *)

\* the records save_or_update_product returns for a product of price 0 ..
\* MaxPrice whose catalog entry is absent or holds any price or NULL
RankRecords ==
    UNION {
        LET product == [name |-> c.name, price |-> q, category |-> <<"F">>, url |-> c.url]
            product_hash == get_hash(product)
        IN  {change_record(product, product_hash, existing) :
                existing \in {NoRow} \cup
                    {product_row([product EXCEPT !.price = o], product_hash,
                                 extract_zepto_id(product.url), "old") :
                        o \in {None} \cup 0..MaxPrice}}
        : c \in Pool, q \in 0..MaxPrice}

\* the price_drop_threshold arguments tried
ThresholdArgs == {-50, 0, DefaultThreshold}

InitRank ==
    /\ products = <<>>
    /\ price_history = <<>>
    /\ db_lock = 0
    /\ tracker = <<>>
    /\ prior_at_write = <<>>
    /\ poll = PollIdle
    /\ write_failed = <<>>
    /\ upserts_after_failure = <<>>
    /\ resolve = ResolveIdle
    /\ \E updates \in SeqsUpTo(RankRecords, MaxUpdates), a \in ThresholdArgs :
        rank = [pc |-> "call", updates |-> updates, price_drop_threshold |-> Abs(a),
                major_drops |-> <<>>]

\* major_drops = self._analyze_price_changes(updates, prev_snapshot)
analyze ==
    /\ rank.pc = "call"
    /\ rank' = [rank EXCEPT
            !.pc = "returned",
            !.major_drops = _analyze_price_changes(rank.updates, rank.price_drop_threshold)]
    /\ UNCHANGED <<products, price_history, db_lock, tracker, prior_at_write,
                   write_failed, upserts_after_failure, resolve, poll>>

NextRank == analyze

SpecRank == InitRank /\ [][NextRank]_vars


(* --------------------------- get_hash alone --------------------------- *)

\* get_hash is called at most MaxCalls times on one record
MaxCalls == 2

\* names as _extract_products takes them from the alt text: stripped at both
\* ends, blanks inside kept
KeyNames ==
    { <<"a", " ", "b">>, <<"A", " ", "b">>, <<"a", " ", " ", "b">>,
      <<"d", "r", "y", " ", "1", "l">>, <<"a", Surrogate>> }

KeyCategories == { <<"F">>, <<"B">> }

\* no link; a /p/ link; a link that patterns 1 and 4 match; two links that no
\* pattern matches
KeyUrls ==
    { <<>>, <<"/", "p", "/", "x">>, <<"i", "d", "=", "1", "/", "p", "/", "x">>,
      <<"/", "q", "/", "x">>, <<"/", "q", "/", "y">> }

\* Product(name, price, ..., category, url, image, ..., extracted_at)
Candidates(categories, prices, images, times) ==
    {[name |-> n, price |-> q, category |-> c, url |-> u, image |-> i,
      extracted_at |-> t] :
        n \in KeyNames, q \in prices, c \in categories, u \in KeyUrls,
        i \in images, t \in times}

\* two candidate records, the second of either category, of any price, image
\* and capture time and held by a tracker of either location
InitKey ==
    /\ products = <<>>
    /\ price_history = <<>>
    /\ db_lock = 0
    /\ tracker = <<>>
    /\ prior_at_write = <<>>
    /\ poll = PollIdle
    /\ write_failed = <<>>
    /\ upserts_after_failure = <<>>
    /\ rank = RankIdle
    /\ \E a \in Candidates({<<"F">>}, {1}, {""}, {0}),
          b \in Candidates(KeyCategories, {1, MaxPrice}, {"", "img"}, {0, 1}),
          pin \in {"Arcade Gloria", "560001"} :
        resolve = [pc |-> "call", a |-> a, b |-> b,
                   location_a |-> "Arcade Gloria", location_b |-> pin,
                   key_a |-> NoId, key_b |-> NoId, calls |-> 0, same |-> TRUE]

\* product.get_hash() on each of the two records
get_hash_first ==
    /\ resolve.pc = "call"
    /\ resolve' = [resolve EXCEPT
            !.pc = "returned",
            !.key_a = get_hash(resolve.a),
            !.key_b = get_hash(resolve.b),
            !.calls = 1]
    /\ UNCHANGED <<products, price_history, db_lock, tracker, prior_at_write,
                   write_failed, upserts_after_failure, rank, poll>>

\* product.get_hash() once more on the same records
get_hash_again ==
    /\ resolve.pc = "returned"
    /\ resolve.calls < MaxCalls
    /\ resolve' = [resolve EXCEPT
            !.calls = @ + 1,
            !.same = /\ resolve.same
                     /\ get_hash(resolve.a) = resolve.key_a
                     /\ get_hash(resolve.b) = resolve.key_b]
    /\ UNCHANGED <<products, price_history, db_lock, tracker, prior_at_write,
                   write_failed, upserts_after_failure, rank, poll>>

NextKey ==
    \/ get_hash_first
    \/ get_hash_again

SpecKey == InitKey /\ [][NextKey]_vars

(* ------------------------ _wait_for_products -------------------------- *)

\* a page of any behaviour shows 0 .. MaxCount priced elements at a count
MaxCount == 3
\* a page that only grows shows up to MaxShown of them
MaxShown == 20

\* max_scrolls = 100 and the stable limit 5 of zepto_tracker_Arcade_Gloria.py;
\* range(9) and the stable limit 3 of the older zepto_tracker.py
max_scrolls == 100
stable_limit == 5
older_max_scrolls == 9
older_stable_limit == 3

Loops == { [max_scrolls |-> max_scrolls, limit |-> stable_limit],
           [max_scrolls |-> older_max_scrolls, limit |-> older_stable_limit] }

\* What a count can return.  A page of kind "any" shows any number of elements
\* whatever it showed before; a page of kind "growing" (an infinite scroll
\* that loads at most one more element at a scroll) shows what it showed at
\* the count before, or one more.
Counts(page, current_count) ==
    IF page = "growing"
    THEN {current_count, current_count + 1} \cap (0..MaxShown)
    ELSE 0..MaxCount

Max(a, b) == IF a > b THEN a ELSE b

\* the last n elements of s, all of s when it is shorter
Last(s, n) == IF Len(s) <= n THEN s ELSE SubSeq(s, Len(s) - n + 1, Len(s))

prev_count_last(prev_count, current_count) == current_count

\* if current_count > prev_count: prev_count = current_count
prev_count_after(prev_count, current_count) ==
    IF current_count > prev_count THEN current_count ELSE prev_count

\* ... stable_rounds = 0, else: stable_rounds += 1
stable_rounds_after(stable_rounds, prev_count, current_count) ==
    IF current_count > prev_count THEN 0 ELSE stable_rounds + 1

loop_exits_never(stable_rounds, limit) == FALSE

\* if stable_rounds >= 5: break
loop_exits(stable_rounds, limit) == stable_rounds >= limit

\* The state after the initial count: prev_count = 0, stable_rounds = 0 and
\* current_count is what the page showed first.  polls counts the iterations
\* made; largest and not_grown record, from the counts the polls returned, the
\* largest of them and, for the last polls, whether the count was not greater
\* than the largest polled before it.
InitPoll ==
    /\ products = <<>>
    /\ price_history = <<>>
    /\ db_lock = 0
    /\ tracker = <<>>
    /\ prior_at_write = <<>>
    /\ write_failed = <<>>
    /\ upserts_after_failure = <<>>
    /\ rank = RankIdle
    /\ resolve = ResolveIdle
    /\ \E loop \in Loops, page \in {"any", "growing"}, initial \in 0..MaxCount :
        poll = [pc |-> "loop", page |-> page, max_scrolls |-> loop.max_scrolls, limit |-> loop.limit,
                prev_count |-> 0, stable_rounds |-> 0, current_count |-> initial,
                final_count |-> None, polls |-> 0, largest |-> 0, not_grown |-> <<>>]

\* One iteration of the loop: scroll, sleep, count, compare, and the test that
\* breaks out of the loop; the for statement ends the loop after max_scrolls.
scroll_and_count ==
    /\ poll.pc = "loop"
    /\ \E count \in Counts(poll.page, poll.current_count) :
        LET stable == stable_rounds_after(poll.stable_rounds, poll.prev_count, count)
            done  == poll.polls + 1
        IN  poll' = [poll EXCEPT
                !.current_count = count,
                !.prev_count = prev_count_after(poll.prev_count, count),
                !.stable_rounds = stable,
                !.polls = done,
                !.largest = Max(poll.largest, count),
                !.not_grown = Last(Append(poll.not_grown, count <= poll.largest),
                                   poll.limit),
                !.pc = IF loop_exits(stable, poll.limit) \/ done >= poll.max_scrolls
                       THEN "final" ELSE "loop"]
    /\ UNCHANGED <<products, price_history, db_lock, tracker, prior_at_write,
                   write_failed, upserts_after_failure, rank, resolve>>

\* final_count = await price_elements.count(), and the function returns
count_final ==
    /\ poll.pc = "final"
    /\ \E count \in Counts(poll.page, poll.current_count) :
        poll' = [poll EXCEPT !.final_count = count, !.pc = "returned"]
    /\ UNCHANGED <<products, price_history, db_lock, tracker, prior_at_write,
                   write_failed, upserts_after_failure, rank, resolve>>

NextPoll ==
    \/ scroll_and_count
    \/ count_final

\* every await of the loop completes: an iteration that can run does run
SpecPoll == InitPoll /\ [][NextPoll]_vars /\ WF_vars(NextPoll)

(* ------------------------------ claims -------------------------------- *)

\* the trackers inside save_or_update_product, result dict built, upsert not
\* yet returned
InUpsert == {r \in Trackers :
                tracker[r].pc \in {"insert_products", "insert_history", "commit"}}

\* the catalog entry of the key a tracker is upserting, as the table holds it
PriorEntry(r) == get_product_by_hash(products, tracker[r].result.hash)

\* the classification of a change record: new, changed or unchanged
Classification(u) ==
    IF u.is_new THEN "new"
    ELSE IF u.pct_change # Zero THEN "changed" ELSE "unchanged"

\* C1: under every interleaving of two runs, the previous price (and the
\* new flag) of each returned change record is what the catalog held for the
\* key immediately before that upsert's own write.
C1_PreviousPriceIsPriceBeforeWrite ==
    \A r \in Trackers :
        \A n \in 1..Len(tracker[r].product_updates) :
            /\ tracker[r].product_updates[n].old_price = prior_at_write[r][n].price
            /\ tracker[r].product_updates[n].is_new = (prior_at_write[r][n] = NoRow)

\* C2: once a catalog or history write of a run could not be committed, the
\* run ingests no further record and never reaches its summary or its alert
\* report.
C2_WriteFailureHaltsRun ==
    \A r \in Trackers :
        write_failed[r] =>
            /\ upserts_after_failure[r] = 0
            /\ tracker[r].pc \notin {"report", "done"}

\* the index of the last history row of key k (0 when there is none)
LastHistory(k) ==
    LET idx == {n \in 1..Len(price_history) : price_history[n].product_hash = k}
    IN  IF idx = {} THEN 0 ELSE CHOOSE n \in idx : \A m \in idx : m <= n

\* C3: with two trackers upserting at the same time, the catalog entry of
\* every key holds the values of the upsert that committed last (the last
\* history row of the key), and the history holds one row for each upsert
\* that returned: none is lost.
C3_LastCommitWinsHistoryKeepsBoth ==
    /\ \A k \in DOMAIN products :
        /\ LastHistory(k) # 0
        /\ LET h == price_history[LastHistory(k)]
           IN  /\ products[k].name = h.name
               /\ products[k].price = h.price
               /\ products[k].category = h.category
               /\ products[k].location = h.location
    /\ \A r \in Trackers :
        Cardinality({n \in 1..Len(price_history) :
                        price_history[n].location = tracker[r].location_pin})
            = Len(tracker[r].product_updates)

\* both trackers read the key before either committed, and both committed
C3_Witness ==
    \E n1 \in 1..Len(tracker[1].product_updates),
       n2 \in 1..Len(tracker[2].product_updates) :
        /\ tracker[1].product_updates[n1].hash = tracker[2].product_updates[n2].hash
        /\ tracker[1].product_updates[n1].is_new
        /\ tracker[2].product_updates[n2].is_new
        /\ tracker[1].product_updates[n1].price # tracker[2].product_updates[n2].price

\* C4: the catalog row and the history row of one upsert become visible in
\* the same step, and no other step changes either table; an upsert that
\* ends without returning (its write failed) leaves both tables as they were.
C4_EntryAndHistoryVisibleTogether ==
    [][/\ (products' # products \/ price_history' # price_history) =>
            \E r \in Trackers :
                LET t == tracker[r]
                IN  /\ t.pc = "commit"
                    /\ products' = upsert_row(products,
                            product_row(t.product, t.result.hash,
                                        extract_zepto_id(t.product.url), t.location_pin))
                    /\ price_history' = Append(price_history,
                            history_row(t.product, t.result.hash, t.location_pin))
       /\ \A r \in Trackers :
            (/\ r \in InUpsert
             /\ tracker'[r].pc = "category"
             /\ tracker'[r].product_updates = tracker[r].product_updates)
            => UNCHANGED <<products, price_history, poll>>
      ]_vars

\* one tracker has executed its INSERT INTO products, the row is not in the
\* table any reader sees, and the other tracker is about to read
C4_Witness ==
    \E r \in Trackers, o \in Trackers :
        /\ tracker[r].pc = "insert_history"
        /\ tracker[r].txn_products # <<>>
        /\ tracker[r].result.hash \notin DOMAIN products
        /\ tracker[o].pc = "read"

\* C5: an upsert whose key has a catalog entry of price p > 0 and incoming
\* price q returns previous price p, absolute delta q - p, percentage delta
\* (q - p) / p * 100, not new, and changed exactly when q differs from p.
C5_DiffAgainstPositivePrice ==
    \A r \in InUpsert :
        LET p == PriorEntry(r).price
            q == tracker[r].product.price
            u == tracker[r].result
        IN  (PriorEntry(r) # NoRow /\ p # None /\ p > 0) =>
                /\ u.old_price = p
                /\ u.price_diff = q - p
                /\ u.pct_change.num * p = (q - p) * 100 * u.pct_change.den
                /\ ~u.is_new
                /\ (Classification(u) = "changed") <=> (q # p)

\* previous MaxPrice, incoming 1: a drop
C5_Witness ==
    \E r \in InUpsert :
        /\ PriorEntry(r) # NoRow
        /\ PriorEntry(r).price = MaxPrice
        /\ tracker[r].product.price = 1
        /\ Classification(tracker[r].result) = "changed"
        /\ tracker[r].result.price_diff = 1 - MaxPrice

\* C6: an upsert whose key has no catalog entry returns a record that is new,
\* with previous price null and both deltas 0, whatever the incoming price.
C6_AbsentIsNew ==
    \A r \in InUpsert :
        PriorEntry(r) = NoRow =>
            /\ Classification(tracker[r].result) = "new"
            /\ tracker[r].result.old_price = None
            /\ tracker[r].result.price_diff = 0
            /\ tracker[r].result.pct_change = Zero

C6_Witness ==
    \E r \in InUpsert :
        /\ PriorEntry(r) = NoRow
        /\ tracker[r].product.price = MaxPrice
        /\ tracker[r].result.is_new

\* C7: whenever a catalog entry exists (with a price, 0 included), the
\* absolute delta of the record is incoming price minus previous price.
C7_AbsoluteDeltaIsDifference ==
    \A r \in InUpsert :
        (PriorEntry(r) # NoRow /\ PriorEntry(r).price # None) =>
            tracker[r].result.price_diff = tracker[r].product.price - PriorEntry(r).price

\* C8 as claimed: the percentage delta is non-zero only if a catalog entry
\* with price > 0 exists; in every other case it is 0 and the record is new.
C8_ZeroPercentMeansNew ==
    \A r \in InUpsert :
        LET has == PriorEntry(r) # NoRow /\ PriorEntry(r).price # None
                   /\ PriorEntry(r).price > 0
        IN  /\ tracker[r].result.pct_change # Zero => has
            /\ ~has => (tracker[r].result.pct_change = Zero /\ tracker[r].result.is_new)

\* C8 amended: the percentage delta is non-zero only if a catalog entry with
\* price > 0 exists; in every other case it is 0 and the record is new exactly
\* when there is no catalog entry (an entry of price 0 or NULL gives a record
\* that is not new).
C8_ZeroPercentNewIffAbsent ==
    \A r \in InUpsert :
        LET has == PriorEntry(r) # NoRow /\ PriorEntry(r).price # None
                   /\ PriorEntry(r).price > 0
        IN  /\ tracker[r].result.pct_change # Zero => has
            /\ ~has => /\ tracker[r].result.pct_change = Zero
                       /\ tracker[r].result.is_new <=> (PriorEntry(r) = NoRow)

\* an entry of price 0 or NULL: the record has percentage 0 and is not new
C8_Witness ==
    \E r \in InUpsert :
        /\ PriorEntry(r) # NoRow
        /\ PriorEntry(r).price = 0
        /\ tracker[r].result.pct_change = Zero
        /\ ~tracker[r].result.is_new

\* C9: the ranking is complete: every update that has a prior entry and a
\* percentage delta <= -threshold is in the returned list, which holds as
\* many records as there are such updates (no cap).
C9_RankComplete ==
    rank.pc = "returned" =>
        LET due == {n \in 1..Len(rank.updates) :
                        /\ ~rank.updates[n].is_new
                        /\ RatLeq(rank.updates[n].pct_change,
                                  Rat(-rank.price_drop_threshold, 1))}
        IN  /\ \A n \in due :
                \E m \in 1..Len(rank.major_drops) : rank.major_drops[m] = rank.updates[n]
            /\ Len(rank.major_drops) = Cardinality(due)

\* C10: the ranking is sound for every threshold >= 0: every record of the
\* returned list is changed (not new, percentage delta non-zero) and has
\* percentage delta <= -threshold.
C10_RankSound ==
    rank.pc = "returned" =>
        \A m \in 1..Len(rank.major_drops) :
            /\ Classification(rank.major_drops[m]) = "changed"
            /\ RatLeq(rank.major_drops[m].pct_change, Rat(-rank.price_drop_threshold, 1))

\* the records of l whose percentage delta is v, in the order of l
WithPct(l, v) == SelectSeq(l, LAMBDA u : u.pct_change = v)

\* C11: the returned list is ordered by absolute percentage delta, largest
\* first, and the records of equal percentage delta are in the order in which
\* the update list holds them.
C11_RankOrderedAndStable ==
    rank.pc = "returned" =>
        /\ \A m \in 1..Len(rank.major_drops), n \in 1..Len(rank.major_drops) :
            m < n => RatLeq(RatAbs(rank.major_drops[n].pct_change),
                            RatAbs(rank.major_drops[m].pct_change))
        /\ \A v \in {rank.major_drops[m].pct_change : m \in 1..Len(rank.major_drops)} :
            WithPct(rank.major_drops, v) =
                WithPct(SelectSeq(rank.updates,
                                  LAMBDA u : \E m \in 1..Len(rank.major_drops) :
                                                rank.major_drops[m] = u), v)

\* two drops handed over smallest first come back largest first
C11_Witness ==
    /\ rank.pc = "returned"
    /\ Len(rank.updates) = 2
    /\ Len(rank.major_drops) = 2
    /\ rank.major_drops[1] = rank.updates[2]
    /\ rank.major_drops[2] = rank.updates[1]
    /\ rank.major_drops[1].pct_change = Rat(-50, 1)

\* two different records of equal percentage delta keep their order
C11_TieWitness ==
    /\ rank.pc = "returned"
    /\ Len(rank.major_drops) = 2
    /\ rank.major_drops[1] # rank.major_drops[2]
    /\ rank.major_drops[1].pct_change = rank.major_drops[2].pct_change
    /\ rank.major_drops = rank.updates

\* the history rows of key k, oldest first
HistoryOf(k) == SelectSeq(price_history, LAMBDA h : h.product_hash = k)

\* the price recorded for key k by the upsert before the latest one
PrecedingPrice(k) ==
    IF Len(HistoryOf(k)) >= 2 THEN HistoryOf(k)[Len(HistoryOf(k)) - 1].price ELSE None

\* C12: a run alerts on a record exactly when the price recorded by the run
\* before (the history row before the run's own) exists and the drop from it
\* is at least the threshold; prices recorded by earlier runs play no part
\* (200, 150, 140 at threshold 20: run 2 alerts with -25, run 3 does not).
C12_AlertsAgainstPrecedingRun ==
    \A r \in Trackers :
        tracker[r].pc = "report" =>
            \A n \in 1..Len(tracker[r].product_updates) :
                LET u == tracker[r].product_updates[n]
                    p == PrecedingPrice(u.hash)
                    alerted == \E m \in 1..Len(tracker[r].major_drops) :
                                    tracker[r].major_drops[m] = u
                IN  /\ alerted <=>
                        /\ p # None
                        /\ (u.price - p) * 100 <= -tracker[r].price_drop_threshold * p
                    /\ (p = 200 /\ u.price = 150) =>
                        (alerted /\ ~u.is_new /\ u.pct_change = Rat(-25, 1))

\* the third run of 200, 150, 140 has ranked its record: no alert
C12_Witness ==
    /\ tracker[1].pc = "report"
    /\ Len(price_history) = 3
    /\ price_history[1].price = 200
    /\ price_history[2].price = 150
    /\ price_history[3].price = 140
    /\ Len(tracker[1].product_updates) = 1
    /\ tracker[1].product_updates[1].old_price = 150
    /\ tracker[1].major_drops = <<>>

\* the second run of 200, 150 has ranked its record: an alert of -25
C12_SecondRunWitness ==
    /\ tracker[1].pc = "report"
    /\ Len(price_history) = 2
    /\ price_history[1].price = 200
    /\ price_history[2].price = 150
    /\ Len(tracker[1].major_drops) = 1
    /\ tracker[1].major_drops[1].pct_change = Rat(-25, 1)

\* the tracker r commits its upsert in this step
Commits(r) ==
    /\ tracker[r].pc = "commit"
    /\ Len(tracker'[r].product_updates) = Len(tracker[r].product_updates) + 1

\* C13: an upsert that follows, with nothing in between, an upsert of the
\* same record at the same price returns a record that is not new with
\* percentage delta 0, appends exactly one history row and leaves the number
\* of catalog rows as it was.
C13_RepeatedUpsertIsUnchanged ==
    [][\A r \in {1} :
        LET t == tracker[r]
            same == /\ price_history # <<>>
                    /\ price_history[Len(price_history)] =
                            history_row(t.product, t.result.hash, t.location_pin)
                    /\ get_product_by_hash(products, t.result.hash) =
                            product_row(t.product, t.result.hash,
                                        extract_zepto_id(t.product.url), t.location_pin)
            u == tracker'[r].product_updates[Len(tracker'[r].product_updates)]
        IN  (Commits(r) /\ same) =>
                /\ ~u.is_new
                /\ u.pct_change = Zero
                /\ u.price_diff = 0
                /\ u.old_price = t.product.price
                /\ Len(price_history') = Len(price_history) + 1
                /\ Cardinality(DOMAIN products') = Cardinality(DOMAIN products)
      ]_vars

\* two runs in a row have upserted the product at the same price
C13_Witness ==
    /\ Len(price_history) = 2
    /\ price_history[1] = price_history[2]
    /\ Cardinality(DOMAIN products) = 1
    /\ Len(tracker[1].product_updates) = 1
    /\ ~tracker[1].product_updates[1].is_new
    /\ tracker[1].product_updates[1].pct_change = Zero

\* C14: the history is append-only: a step either leaves price_history as it
\* is or is the commit of one upsert and appends exactly one row, with that
\* upsert's key, price and location tag; every upsert that returns appends
\* its row; the rows already there are never changed or removed.
C14_HistoryAppendOnly ==
    [][/\ price_history' # price_history =>
            \E r \in {1, 2} :
                /\ Commits(r)
                /\ Len(price_history') = Len(price_history) + 1
                /\ SubSeq(price_history', 1, Len(price_history)) = price_history
                /\ LET h == price_history'[Len(price_history')]
                   IN  /\ h.product_hash = tracker[r].result.hash
                       /\ h.product_hash = get_hash(tracker[r].product)
                       /\ h.price = tracker[r].product.price
                       /\ h.location = tracker[r].location_pin
       /\ \A r \in {1, 2} : Commits(r) => Len(price_history') = Len(price_history) + 1
       /\ \A k \in {price_history[n].product_hash : n \in 1..Len(price_history)} :
            Len(SelectSeq(price_history', LAMBDA h : h.product_hash = k))
                >= Len(SelectSeq(price_history, LAMBDA h : h.product_hash = k))
      ]_vars

\* both trackers have upserted the same key: its history holds a row of each
C14_Witness ==
    \E m \in 1..Len(price_history), n \in 1..Len(price_history) :
        /\ m < n
        /\ price_history[m].product_hash = price_history[n].product_hash
        /\ price_history[m].location = "Arcade Gloria"
        /\ price_history[n].location = "560001"

\* C15: with a single writer the catalog holds exactly one row for each key
\* ever upserted (each key of the history), the row holds the attributes and
\* the location tag of the latest upsert of the key, and the commit of an
\* upsert changes the row of no other key.
C15_CatalogHoldsLatestUpsert ==
    /\ [](/\ DOMAIN products =
                {price_history[n].product_hash : n \in 1..Len(price_history)}
          /\ \A k \in DOMAIN products :
                LET h == HistoryOf(k)[Len(HistoryOf(k))]
                IN  /\ products[k].product_hash = k
                    /\ products[k].price = h.price
                    /\ products[k].name = h.name
                    /\ products[k].category = h.category
                    /\ products[k].location = h.location)
    /\ [][\A k \in DOMAIN products :
            (k # tracker[1].result.hash => products'[k] = products[k])
            /\ k \in DOMAIN products']_vars

\* the seeded entry has been overwritten by the run's upsert of the same key
\* at another price, next to the entry of another key
C15_Witness ==
    /\ Cardinality(DOMAIN products) = 2
    /\ Len(price_history) >= 3
    /\ \E k \in DOMAIN products :
        /\ Len(HistoryOf(k)) >= 2
        /\ HistoryOf(k)[1].location = "old"
        /\ HistoryOf(k)[1].price # products[k].price
        /\ products[k].location = "Arcade Gloria"

\* C16: the loop index moves through the category list one category at a
\* time, also in the step in which fetching or extracting a category fails;
\* the run leaves the loop only after the last category, and a run that has
\* loaded its categories reaches its summary and then the end of its report.
C16_CategoryFailureIsIsolated ==
    /\ [][LET t == tracker[1]
              u == tracker'[1]
          IN  /\ (t.pc # "start" /\ u.i # t.i) =>
                    (u.i = t.i + 1 /\ t.i <= Len(t.categories) /\ u.pc = "category")
              /\ (t.pc = "start" /\ u.pc = "category") => u.i = 1
              /\ (t.pc # "start" /\ u.pc \in {"report", "done"} /\ u.pc # t.pc) =>
                    \/ t.pc = "category" /\ t.i = Len(t.categories) + 1 /\ u.pc = "report"
                    \/ t.pc = "report" /\ u.pc = "done"
        ]_vars
    /\ (tracker[1].pc = "category") ~> (tracker[1].pc = "report")
    /\ (tracker[1].pc = "report") ~> (tracker[1].pc = "done")

\* the first of two categories has failed, the second is being upserted
C16_Witness ==
    /\ Len(tracker[1].categories) = 2
    /\ tracker[1].i = 2
    /\ tracker[1].all_products = <<>>
    /\ tracker[1].product_updates = <<>>
    /\ ~write_failed[1]
    /\ tracker[1].pc = "commit"

\* the first pattern, in list order, that url matches (0 when none does)
FirstPattern(url) ==
    IF \A p \in 1..Len(patterns) : ~re_search(patterns[p], url).ok THEN 0
    ELSE CHOOSE p \in 1..Len(patterns) :
            /\ re_search(patterns[p], url).ok
            /\ \A q \in 1..(p - 1) : ~re_search(patterns[q], url).ok

\* C17: for a record whose URL matches a pattern, get_hash returns the group
\* captured by the first pattern of the list that matches, as it stands, and
\* two records of the same URL id get the same key whatever their names and
\* categories.
C17_UrlIdIsTheKey ==
    resolve.pc = "returned" =>
        /\ \A x \in {"a", "b"} :
            LET rec == IF x = "a" THEN resolve.a ELSE resolve.b
                key == IF x = "a" THEN resolve.key_a ELSE resolve.key_b
            IN  (rec.url # <<>> /\ FirstPattern(rec.url) # 0) =>
                    /\ key.kind = "id"
                    /\ key.val = re_search(patterns[FirstPattern(rec.url)], rec.url).group
                    /\ FirstPattern(rec.url) = 1 => key.val = <<"x">>
        /\ (resolve.key_a.kind = "id" /\ resolve.key_b.kind = "id"
            /\ re_search(patterns[FirstPattern(resolve.a.url)], resolve.a.url).group
                = re_search(patterns[FirstPattern(resolve.b.url)], resolve.b.url).group)
            => resolve.key_a = resolve.key_b

\* a URL that patterns 1 and 4 match against another URL of the same id,
\* under another name and category
C17_Witness ==
    /\ resolve.pc = "returned"
    /\ resolve.a.url = <<"i", "d", "=", "1", "/", "p", "/", "x">>
    /\ resolve.b.url = <<"/", "p", "/", "x">>
    /\ resolve.a.name # resolve.b.name
    /\ resolve.a.category # resolve.b.category
    /\ resolve.key_a = UrlId(<<"x">>)
    /\ resolve.key_b = UrlId(<<"x">>)

\* C18: the key is the URL id when a pattern matches and otherwise the
\* content hash of name, category, size token and feature tokens, so that two
\* records with different non-empty URLs that no pattern matches and with the
\* same name and category have the same key.
C18_ContentHashWithoutUrlId ==
    resolve.pc = "returned" =>
       ((/\ resolve.a.url # <<>> /\ resolve.b.url # <<>>
         /\ resolve.a.url # resolve.b.url
         /\ FirstPattern(resolve.a.url) = 0 /\ FirstPattern(resolve.b.url) = 0
         /\ resolve.a.name = resolve.b.name
         /\ resolve.a.category = resolve.b.category)
         => resolve.key_a = resolve.key_b)

\* C19: two records without URL, of the same category, whose names are equal
\* once lowercased and with runs of blanks collapsed, have the same key.
C19_KeyOfNormalizedName ==
    resolve.pc = "returned" =>
       ((/\ resolve.a.url = <<>> /\ resolve.b.url = <<>>
         /\ resolve.a.category = resolve.b.category
         /\ normalized_name(resolve.a.name) = normalized_name(resolve.b.name))
         => resolve.key_a = resolve.key_b)

\* C20: every call returns a key (it does not raise), two records that agree
\* on name, category and URL get the same key whatever their price, image,
\* capture time and tracker location are, and repeated calls return the key
\* of the first call.
C20_KeyTotalAndDeterministic ==
    resolve.pc = "returned" =>
        /\ resolve.key_a.kind \in {"id", "md5"}
        /\ resolve.key_b.kind \in {"id", "md5"}
        /\ (/\ resolve.a.name = resolve.b.name
            /\ resolve.a.category = resolve.b.category
            /\ resolve.a.url = resolve.b.url) => resolve.key_a = resolve.key_b
        /\ resolve.same

\* C21: the keys returned by get_hash all have one length, whether they are
\* a URL id, a content hash or a URL hash.
C21_KeysHaveOneLength ==
    resolve.pc = "returned" =>
        \A key \in {resolve.key_a, resolve.key_b} :
            key.kind \in {"id", "md5"} => key_length(key) = DigestLength

C23_StableRoundsFollowPreviousCount ==
    [][poll.pc = "loop" /\ poll'.polls = poll.polls + 1 =>
        /\ poll'.current_count > poll.current_count => poll'.stable_rounds = 0
        /\ poll'.current_count = poll.current_count =>
                poll'.stable_rounds = poll.stable_rounds + 1]_vars

\* C28: 0 <= stable_rounds <= limit, prev_count is the largest count the polls
\* have returned so far (0 before the first), and a loop left before max_scrolls
\* polls has made `limit` polls in a row that each returned a count not greater
\* than the largest polled before it.
C28_EarlyExitAfterStablePolls ==
    poll.pc # "idle" =>
        /\ 0 <= poll.stable_rounds /\ poll.stable_rounds <= poll.limit
        /\ poll.prev_count = poll.largest
        /\ poll.pc # "loop" /\ poll.polls < poll.max_scrolls =>
                /\ Len(poll.not_grown) = poll.limit
                /\ \A i \in 1..poll.limit : poll.not_grown[i]

\* the loop grew twice, then saw a smaller count and left early
C28_Witness_EarlyExit ==
    /\ poll.pc = "returned"
    /\ poll.page = "any"
    /\ poll.polls < poll.max_scrolls
    /\ poll.polls > poll.limit + 1
    /\ poll.current_count < poll.prev_count

\* C24: a run whose categories.json is absent, is not JSON, or is JSON of
\* another shape than a list of entries with a name and a url never raises,
\* processes no category and leaves the catalog and the history as they were.
C24_MalformedConfigurationIsHarmless ==
    \A r \in Trackers :
        tracker[r].categories_file.status # "ok" =>
            /\ tracker[r].pc # "raised"
            /\ tracker[r].pc \notin {"read", "insert_products", "insert_history", "commit"}
            /\ tracker[r].product_updates = <<>>
            /\ prior_at_write[r] = <<>>

\* C25: the Slack message is posted only once the loop over the categories is
\* over and every upsert of the run is committed (no transaction open, one
\* commit per change record); whatever the delivery comes to (200, another
\* status, an exception) the run ends normally and the step leaves the catalog
\* and the history as they were.
C25_DeliveryAfterPersistence ==
    /\ [](\A r \in Trackers : tracker[r].alert # "none" => tracker[r].pc = "done")
    /\ [][\A r \in Trackers :
            tracker'[r].alert # tracker[r].alert =>
                /\ tracker[r].pc = "report"
                /\ tracker[r].i > Len(tracker[r].categories)
                /\ db_lock # r
                /\ tracker[r].txn_products = <<>> /\ tracker[r].txn_history = <<>>
                /\ Len(tracker[r].product_updates) = Len(prior_at_write[r])
                /\ tracker'[r].pc = "done"
                /\ products' = products
                /\ price_history' = price_history]_vars

\* a run that wrote a major drop and whose delivery failed
C25_Witness_FailedDelivery ==
    \E r \in Trackers :
        /\ tracker[r].pc = "done"
        /\ tracker[r].alert \in {"500", "exception"}
        /\ tracker[r].major_drops # <<>>
        /\ prior_at_write[r] # <<>>

\* C26: prev_snapshot is read when the run starts, before its first upsert: it
\* then holds, for every key of the catalog, the price the catalog holds, and
\* no later step of the run (an upsert, a commit) changes it.
C26_SnapshotPrecedesUpserts ==
    [][\A r \in Trackers :
        /\ tracker[r].pc = "start" /\ tracker'[r].pc = "category" =>
                /\ tracker[r].product_updates = <<>> /\ prior_at_write[r] = <<>>
                /\ DOMAIN tracker'[r].prev_snapshot = DOMAIN products
                /\ \A k \in DOMAIN products :
                        tracker'[r].prev_snapshot[k] = products[k].price
        /\ tracker[r].pc # "start" /\ tracker'[r].pc # "start" =>
                tracker'[r].prev_snapshot = tracker[r].prev_snapshot]_vars

\* the run has committed another price for a key of its snapshot
C26_Witness_UpsertAfterSnapshot ==
    \E r \in Trackers :
        /\ prior_at_write[r] # <<>>
        /\ \E k \in DOMAIN tracker[r].prev_snapshot :
                /\ k \in DOMAIN products
                /\ Truthy(tracker[r].prev_snapshot[k])
                /\ products[k].price # tracker[r].prev_snapshot[k]

\* C27: within one run no identity key is upserted twice: the change records
\* of the run have pairwise different keys, whether the records come from one
\* category or from two.
C27_EachKeyUpsertedOnce ==
    \A r \in Trackers :
        \A m, n \in 1..Len(tracker[r].product_updates) :
            m # n => tracker[r].product_updates[m].hash # tracker[r].product_updates[n].hash

\* C29: when the run reports, the count of new products is the number of keys
\* of the catalog minus the number of keys of the snapshot, new plus updated is
\* the number of upserts made, and the total of unique products is that number
\* too, also when a category failed part-way.
C29_SummaryIsConsistent ==
    \A r \in Trackers :
        tracker[r].pc = "report" =>
            LET updates == tracker[r].product_updates
                updated == Cardinality({n \in 1..Len(updates) : ~updates[n].is_new})
            IN  /\ tracker[r].new_products_count =
                        Cardinality(DOMAIN products)
                        - Cardinality(DOMAIN tracker[r].prev_snapshot)
                /\ tracker[r].new_products_count + updated = Len(prior_at_write[r])
                /\ Len(tracker[r].all_products) = Len(prior_at_write[r])


====
